---------------------------- MODULE Spec2Model ----------------------------
(***************************************************************************)
(* A model of the generic_runner supervision engine (src/src/main.rs and   *)
(* its helpers): the main loop with its three select branches, the reload  *)
(* and graceful-exit handling after the select, the signal threads, the    *)
(* change filter thread and the merge of captured output.                  *)
(*                                                                         *)
(* A workload process is a number 1..MaxSpawns; a handle (SupervisedChild) *)
(* is the number of the process it was created for, 0 is "no handle".      *)
(***************************************************************************)
EXTENDS Integers, Sequences, FiniteSets, TLC

\* ------------------------------------------------------------------ bounds
MaxSpawns == 2          \* workload processes spawned in one run
MaxRaw == 3             \* raw change notifications in one run
MaxThreshold == 2       \* largest configured changes_needed
MaxRamUsage == 1        \* configured memory ceiling (state.config.max_ram_usage)
MaxFaults == 1          \* health ticks with unreadable or excessive metrics in one run
MaxBuf == 2             \* length of the buffers and batches the merge is tried on
BroadcastCapacity == 2  \* capacity of the broadcast channel the monitor publishes on
MaxPersists == 3        \* calls of update_state the persist check follows
MaxClock == 3           \* largest reading of current_timestamp() in the persist check

\* --------------------------------------------------------- program constants
ErrorLogCap == 5        \* main.rs: if state.error_log.len() >= 5
TickInterval == 5       \* main.rs: tokio::time::sleep(Duration::from_secs(5))
ExitFailure == 100      \* main.rs: std::process::exit(100)
ExitSuccess == 0        \* main.rs: std::process::exit(0), and main returning

\* -------------------------------------------------------------------- paths
\* A path is the sequence of its components; an absolute path starts with
\* the root component "/" (std::path::Component::RootDir).
IsAbsolute(p) == Len(p) > 0 /\ p[1] = "/"

\* Path::join: an absolute argument replaces the base.
Join(base, p) == IF IsAbsolute(p) THEN p ELSE base \o p

\* Path::starts_with: whole components only.
StartsWith(p, q) ==
    /\ Len(q) <= Len(p)
    /\ \A i \in 1..Len(q) : p[i] = q[i]

\* The monitored directory (settings.safe_path()), canonical and absolute.
Dir == <<"/", "w">>

\* AppSpecificConfig::ignored_paths: each configured subdir joined to the base.
ignored_paths(subdirs) == [i \in 1..Len(subdirs) |-> Join(Dir, subdirs[i])]

\* monitor_directory, lines 40-47: the ignore list joined to dir once more.
NormalizeIgnored(list) == [i \in 1..Len(list) |-> Join(Dir, list[i])]

\* iter().any(..) over a sequence, evaluated left to right as the iterator does.
RECURSIVE AnyIgnored(_, _, _)
AnyIgnored(path, ign, i) ==
    IF i > Len(ign) THEN FALSE
    ELSE IF StartsWith(path, ign[i]) THEN TRUE
    ELSE AnyIgnored(path, ign, i + 1)

RECURSIVE AnyPath(_, _, _)
AnyPath(paths, ign, j) ==
    IF j > Len(paths) THEN FALSE
    ELSE IF AnyIgnored(paths[j], ign, 1) THEN TRUE
    ELSE AnyPath(paths, ign, j + 1)

should_ignore_all(event, ign) ==
    \A j \in 1..Len(event) : AnyIgnored(event[j], ign, 1)

\* monitor_directory, lines 68-72.
should_ignore(event, ign) == AnyPath(event, ign, 1)


\* ------------------------------------------------------- merge of output
\* Vec::contains
Contains(buf, v) == \E i \in 1..Len(buf) : buf[i] = v

\* .into_iter().filter(|val| !state.stdout.contains(val)).collect()
RECURSIVE FilterNew(_, _)
FilterNew(batch, buf) ==
    IF batch = <<>> THEN <<>>
    ELSE IF Contains(buf, Head(batch)) THEN FilterNew(Tail(batch), buf)
    ELSE <<Head(batch)>> \o FilterNew(Tail(batch), buf)

\* Insert v after every entry whose key is <= its key (a stable insertion).
RECURSIVE InsertByKey(_, _)
InsertByKey(sorted, v) ==
    IF sorted = <<>> THEN <<v>>
    ELSE IF Head(sorted)[1] <= v[1] THEN <<Head(sorted)>> \o InsertByKey(Tail(sorted), v)
    ELSE <<v>> \o sorted

\* Vec::sort_by_key(|val| val.0): a stable sort on the timestamp.
RECURSIVE SortByKey(_)
SortByKey(buf) ==
    IF buf = <<>> THEN <<>>
    ELSE InsertByKey(SortByKey(SubSeq(buf, 1, Len(buf) - 1)), buf[Len(buf)])

\* Vec::dedup: removes consecutive repeated elements.
RECURSIVE Dedup(_)
Dedup(buf) ==
    IF Len(buf) <= 1 THEN buf
    ELSE IF buf[1] = buf[2] THEN Dedup(Tail(buf))
    ELSE <<buf[1]>> \o Dedup(Tail(buf))

MergeNoFilter(buf, batch) ==
    IF batch = <<>> THEN buf ELSE Dedup(SortByKey(buf \o batch))

\* main.rs lines 245-254 (stdout) and 264-273 (stderr).
Merge(buf, batch) ==
    IF batch = <<>> THEN buf
    ELSE Dedup(SortByKey(buf \o FilterNew(batch, buf)))

\* The (timestamp, line) entries a workload can produce.
Timestamps == 1..2
Lines == {"x", "y"}
Entries == Timestamps \X Lines
TickEntry == <<1, "x">>

\* All sequences over S of length at most n.
SeqsUpTo(S, n) == UNION {[1..k -> S] : k \in 0..n}


\* -------------------------------------------------------------------- state
VARIABLES
    pc,             \* position of the main task in main()
    settings,       \* AppSpecificConfig: changes_needed, install/build command, ignored_subdirs
    raw_all,        \* history (filter check): the raw notifications taken by the filter thread
    event_q,        \* async channel between the filter thread and the main loop
    recv_log,       \* history: the events the main loop received
    alive,          \* the workload processes that are running
    spawned,        \* number of workload processes spawned so far
    child,          \* main's local variable "child" (a handle)
    GLOBAL_CHILD,   \* the global slot (a handle, 0 is None)
    new_child,      \* the value create_child returned, until replace_child stores it
    pid_file,       \* content of /tmp/.<app>_pg.pid (0: not written)
    reload,         \* AtomicBool set by the SIGHUP thread
    exit_graceful,  \* AtomicBool set by the SIGUSR1 thread and the ctrl_c branch
    change_count,   \* main's local counter
    paused,         \* GLOBAL_MONITOR paused
    state,          \* AppState: status, error_log, stdout, stderr
    persisted,      \* the snapshot last written by update_state
    exit_code,      \* -1 while the engine runs
    exit_path,      \* history: the place the engine exited at
    branch,         \* history: the select branch of the current iteration
    steps,          \* history: protocol steps taken since the last select
    rebuilds,       \* history: change-threshold rebuilds triggered
    tick_dead,      \* history: the installed workload was not alive at the tick's liveness check
    build_failed,   \* history: a build step has failed
    faults,         \* history: health ticks that found the metrics unreadable or over the ceiling
    batch,          \* merge check: the batch returned by get_std_out
    merges,         \* merge check: merges of this batch since it last changed
    before,         \* merge check: the buffer before the latest merge
    reload_req,     \* history: a SIGHUP has arrived that no reload has started after
    timer,          \* time elapsed of the sleep of the current select (timing check)
    sampled         \* history: memory usage read by the latest health tick (-1: none read)

vars == <<pc, settings, raw_all, event_q, recv_log, alive, spawned,
          child, GLOBAL_CHILD, new_child, pid_file, reload, exit_graceful,
          change_count, paused, state, persisted, exit_code, exit_path,
          branch, steps, rebuilds, tick_dead, build_failed, faults, batch, merges,
          before, reload_req, timer, sampled>>

bridgeVars == <<raw_all, event_q>>
procVars == <<alive, spawned, child, GLOBAL_CHILD, new_child, pid_file>>
flagVars == <<reload, exit_graceful>>
mergeVars == <<batch, merges, before>>
auxVars == <<reload_req, timer, sampled>>
histVars == <<rebuilds, tick_dead, build_failed, faults>>

Procs == 1..MaxSpawns
Statuses == {"Starting", "Building", "Running", "Warning", "Stopping"}

\* ------------------------------------------------- artisan_middleware calls
\* state_persistence::log_error: the error is appended (and the state saved).
log_error(s, e) == [s EXCEPT !.error_log = Append(@, e)]

\* state_persistence::wind_down_state: phase Stopping (and the state saved).
wind_down_state(s) == [s EXCEPT !.status = "Stopping"]

\* generate_application_state: phase Starting, logs and buffers cleared.
generate_application_state ==
    [status |-> "Starting", error_log |-> <<>>, stdout |-> <<>>, stderr |-> <<>>]

\* SupervisedChild::running
running(h) == h \in alive

\* The engine process ends: std::process::exit(code), or main returns.
Exit(code, path) ==
    /\ pc' = "exited"
    /\ exit_code' = code
    /\ exit_path' = path

NoExit == UNCHANGED <<exit_code, exit_path>>

\* ---------------------------------------------------------------- the inputs
\* Raw notifications: each a sequence of affected paths.
P_t == Dir \o <<"t">>
P_tf == Dir \o <<"t", "f">>
P_sf == Dir \o <<"s", "f">>
P_f == Dir \o <<"f">>

RawEventsSmall == {<<P_tf>>, <<P_sf>>}
RawEvents == {<<P_t>>, <<P_tf>>, <<P_sf>>, <<P_f>>, <<Dir>>, <<P_sf, P_tf>>, <<P_sf, P_f>>, <<>>}

\* ignored_subdirs of Config.toml: relative subdirectories, or absolute paths.
IgnoreLists == {<<>>, <<<<"t">>>>, <<<<"s">>>>, <<<<"t">>, <<"s">>>>, <<<<"s">>, <<"t">>>>,
                <<<<"t", "f">>>>, <<<<>>>>, <<<<"/", "w", "t">>>>, <<<<"/", "v">>>>}

Settings(ign) ==
    [changes_needed : 1..MaxThreshold,
     install_command : BOOLEAN,
     build_command : BOOLEAN,
     ignored_subdirs : ign]

InitCommon ==
    /\ pc = "main"
    /\ event_q = <<>>
    /\ recv_log = <<>>
    /\ alive = {}
    /\ spawned = 0
    /\ child = 0
    /\ GLOBAL_CHILD = 0
    /\ new_child = 0
    /\ pid_file = 0
    /\ reload = FALSE
    /\ exit_graceful = FALSE
    /\ change_count = 0
    /\ paused = FALSE
    /\ exit_code = -1
    /\ exit_path = "none"
    /\ branch = "none"
    /\ steps = <<>>
    /\ rebuilds = 0
    /\ tick_dead = FALSE
    /\ build_failed = FALSE
    /\ faults = 0
    /\ reload_req = FALSE
    /\ timer = 0
    /\ sampled = -1

Init ==
    /\ InitCommon
    /\ settings \in Settings({<<<<"t">>>>})
    /\ raw_all = <<>>
    /\ state = generate_application_state
    /\ persisted = state
    /\ batch = <<>>
    /\ merges = 0
    /\ before = state


\* ------------------------------------------------------- protocol steps
BuildFailureContinues(next) ==
    /\ state' = log_error(state, "BuildFailed")
    /\ persisted' = state'
    /\ build_failed' = TRUE
    /\ pc' = next
    /\ NoExit

\* What a build step does when run_one_shot_process returns Err: log_error,
\* then main returns (main.rs 102-106, 210-214, 292-296, 365-369).
BuildFailure(next) ==
    /\ state' = log_error(state, "BuildFailed")
    /\ persisted' = state'
    /\ build_failed' = TRUE
    /\ Exit(ExitSuccess, "build_failed")

\* The build step of the four places: run_one_shot_process when
\* settings.build_command.is_some(); Err makes main return.
BuildStep(here, next) ==
    /\ pc = here
    /\ \/ /\ ~settings.build_command
          /\ pc' = next
          /\ UNCHANGED <<state, persisted, steps, build_failed>>
          /\ NoExit
       \/ /\ settings.build_command
          /\ steps' = Append(steps, "build")
          /\ \/ /\ pc' = next
                /\ UNCHANGED <<state, persisted, build_failed>>
                /\ NoExit
             \/ BuildFailure(next)
    /\ UNCHANGED <<settings, bridgeVars, recv_log, procVars, flagVars, change_count,
                   paused, branch, rebuilds, tick_dead, faults, mergeVars, auxVars>>

WritePidOnce(pid) == pid_file' = IF pid_file = 0 THEN pid ELSE pid_file

\* child.rs 62-66: fs::write(pid_file, pid.to_string()) replaces the content
\* of /tmp/.<app_name>_pg.pid.
WritePid(pid) == pid_file' = pid

\* create_child: spawn, record the PID, persist the metrics when they can be
\* read, return the handle; a failure winds down and exits with 100.
create_child(here, next) ==
    /\ pc = here
    /\ spawned < MaxSpawns
    /\ \/ \* spawn_complex_process returned Ok and the PID file was written
          /\ spawned' = spawned + 1
          /\ alive' = alive \cup {spawned + 1}
          /\ WritePid(spawned + 1)
          /\ new_child' = spawned + 1
          /\ steps' = Append(steps, "spawn")
          /\ \/ persisted' = state      \* get_metrics Ok: update_state
             \/ UNCHANGED persisted     \* get_metrics Err
          /\ pc' = next
          /\ UNCHANGED state
          /\ NoExit
       \/ \* the process was spawned, get_pid returned Err, or fs::write failed
          \* with an error that carries an inner error (child.rs 48-58, 66-74)
          /\ spawned' = spawned + 1
          /\ alive' = alive \cup {spawned + 1}
          /\ state' = wind_down_state(log_error(state, "PidFailed"))
          /\ persisted' = state'
          /\ Exit(ExitFailure, "pid_failed")
          /\ UNCHANGED <<pid_file, new_child, steps>>
       \/ \* the process was spawned, fs::write failed with a plain OS error:
          \* exit(100) at once (child.rs 66-69)
          /\ spawned' = spawned + 1
          /\ alive' = alive \cup {spawned + 1}
          /\ Exit(ExitFailure, "pid_write_failed")
          /\ UNCHANGED <<pid_file, new_child, steps, state, persisted>>
       \/ \* spawn_complex_process returned Err
          /\ state' = wind_down_state(log_error(state, "SpawnFailed"))
          /\ persisted' = state'
          /\ Exit(ExitFailure, "spawn_failed")
          /\ UNCHANGED <<spawned, alive, pid_file, new_child, steps>>
    /\ UNCHANGED <<settings, bridgeVars, recv_log, child, GLOBAL_CHILD, flagVars,
                   change_count, paused, branch, histVars, mergeVars, auxVars>>

killLeavesRunning(h, res) == alive' = alive

\* SupervisedChild::kill on handle h: Ok leaves the process terminated; Err
\* leaves it as it was. res is the Result.
kill(h, res) ==
    alive' = IF res = "Ok" THEN alive \ {h} ELSE alive

\* --------------------------------------------------------------- startup
InstallFailureReturns ==
    /\ steps' = <<"install_failed">>
    /\ Exit(ExitSuccess, "install_failed")

\* main.rs 93-95: run_install_process returned Err (the command could not be
\* started, or exited with a non-zero status): the error is logged, no more.
InstallFailure ==
    /\ steps' = <<"install_failed">>
    /\ pc' = "s_build"
    /\ NoExit

\* main.rs 89-96: phase Building, then the install step when
\* settings.install_command.is_some().
Startup ==
    /\ pc = "main"
    /\ state' = [state EXCEPT !.status = "Building"]
    /\ persisted' = state'
    /\ \/ /\ ~settings.install_command
          /\ steps' = <<>>
          /\ pc' = "s_build"
          /\ NoExit
       \/ /\ settings.install_command
          /\ \/ /\ steps' = <<"install_cmd">>
                /\ pc' = "s_build"
                /\ NoExit
             \/ InstallFailure
    /\ UNCHANGED <<settings, bridgeVars, recv_log, procVars, flagVars, change_count,
                   paused, branch, histVars, mergeVars, auxVars>>

\* main.rs 98-107
StartupBuild == BuildStep("s_build", "s_spawn")

\* main.rs 111
StartupSpawn == create_child("s_spawn", "s_init")

\* main.rs 112-119: init_child, phase Running.
StartupInit ==
    /\ pc = "s_init"
    /\ child' = new_child
    /\ GLOBAL_CHILD' = new_child
    /\ change_count' = 0
    /\ state' = [state EXCEPT !.status = "Running"]
    /\ persisted' = state'
    /\ steps' = Append(steps, "replace")
    /\ pc' = "s_subscribe"
    /\ NoExit
    /\ UNCHANGED <<settings, bridgeVars, recv_log, alive, spawned, new_child, pid_file,
                   flagVars, paused, branch, histVars, mergeVars, auxVars>>

\* main.rs 151-168: subscribe to the monitor, or wind down and exit(100).
Subscribe ==
    /\ pc = "s_subscribe"
    /\ \/ /\ state' = [state EXCEPT !.status = "Running"]
          /\ persisted' = state'
          /\ pc' = "select"
          /\ NoExit
       \/ /\ state' = wind_down_state(log_error(state, "SubscribeFailed"))
          /\ persisted' = state'
          /\ Exit(ExitFailure, "subscribe_failed")
    /\ steps' = <<>>
    /\ UNCHANGED <<settings, bridgeVars, recv_log, procVars, flagVars, change_count,
                   paused, branch, histVars, mergeVars, auxVars>>

\* ------------------------------------------------- threads and environment
\* monitor_directory's thread, for one notification (monitor.rs 59-95):
\* drop it when should_ignore, else send it on the async channel.
filter_send(event) ==
    LET ign == NormalizeIgnored(ignored_paths(settings.ignored_subdirs))
    IN \/ /\ should_ignore(event, ign)
          /\ UNCHANGED event_q
       \/ /\ ~should_ignore(event, ign)
          /\ event_q' = Append(event_q, event)

\* The thread takes the next raw notification of the notifier. At most MaxRaw
\* notifications are forwarded in a run; dropped ones leave no trace.
WatcherThread ==
    /\ pc # "exited"
    /\ Len(recv_log) + Len(event_q) < MaxRaw
    /\ \E event \in RawEventsSmall : filter_send(event)
    /\ UNCHANGED <<pc, settings, raw_all, recv_log, procVars, flagVars, change_count,
                   paused, state, persisted, exit_code, exit_path, branch,
                   steps, histVars, mergeVars, auxVars>>

\* The same step with the raw notifications recorded, for the check of the
\* filter: at most MaxRaw notifications are taken.
WatcherThreadTraced ==
    /\ pc # "exited"
    /\ Len(raw_all) < MaxRaw
    /\ \E event \in RawEvents :
        /\ raw_all' = Append(raw_all, event)
        /\ filter_send(event)
    /\ UNCHANGED <<pc, settings, recv_log, procVars, flagVars, change_count,
                   paused, state, persisted, exit_code, exit_path, branch,
                   steps, histVars, mergeVars, auxVars>>

\* signals.rs 17-26: the SIGHUP thread.
sighup_watch ==
    /\ pc # "exited"
    /\ reload' = TRUE
    /\ reload_req' = TRUE
    /\ UNCHANGED <<pc, settings, bridgeVars, recv_log, procVars, exit_graceful,
                   change_count, paused, state, persisted, exit_code,
                   exit_path, branch, steps, histVars, mergeVars, timer, sampled>>

\* signals.rs 28-37: the SIGUSR1 thread.
sigusr_watch ==
    /\ pc # "exited"
    /\ exit_graceful' = TRUE
    /\ UNCHANGED <<pc, settings, bridgeVars, recv_log, procVars, reload,
                   change_count, paused, state, persisted, exit_code,
                   exit_path, branch, steps, histVars, mergeVars, auxVars>>

\* A workload process exits on its own.
Crash ==
    /\ pc # "exited"
    /\ \E p \in alive : alive' = alive \ {p}
    /\ UNCHANGED <<pc, settings, bridgeVars, recv_log, spawned, child, GLOBAL_CHILD,
                   new_child, pid_file, flagVars, change_count, paused, state,
                   persisted, exit_code, exit_path, branch, steps,
                   histVars, mergeVars, auxVars>>

\* ------------------------------------------------ select: the change branch
ListeningDuringBuild == pc \in {"select", "rb_build"}

\* main.rs 169-170: the main task waits in tokio::select!; no branch of the
\* select is taken anywhere else.
Listening == pc = "select"

ThresholdReachedEarly(count, trigger) == count + 1 >= trigger

ThresholdReachedStrict(count, trigger) == count > trigger

\* main.rs 177: if change_count >= trigger_count
ThresholdReached(count, trigger) == count >= trigger

\* main.rs 171-186: receive one event and count it; at the threshold pause
\* the monitor, set phase Building and persist.
SelectChange ==
    /\ Listening
    /\ event_q # <<>>
    /\ recv_log' = Append(recv_log, Head(event_q))
    /\ event_q' = Tail(event_q)
    /\ change_count' = change_count + 1
    /\ branch' = "change"
    /\ tick_dead' = FALSE
    /\ IF ThresholdReached(change_count', settings.changes_needed)
       THEN /\ paused' = TRUE
            /\ state' = [state EXCEPT !.status = "Building"]
            /\ persisted' = state'
            /\ rebuilds' = rebuilds + 1
            /\ steps' = <<"pause">>
            /\ pc' = "rb_kill"
       ELSE /\ steps' = <<>>
            /\ pc' = "reload_chk"
            /\ UNCHANGED <<paused, state, persisted, rebuilds>>
    /\ NoExit
    /\ UNCHANGED <<settings, raw_all, procVars, flagVars, build_failed, faults,
                   mergeVars, auxVars>>

\* main.rs 189-194: kill the global child; an error requests a reload.
RebuildKill ==
    /\ pc = "rb_kill"
    /\ \E res \in {"Ok", "Err"} :
        /\ kill(GLOBAL_CHILD, res)
        /\ reload' = IF res = "Err" THEN TRUE ELSE reload
    /\ steps' = Append(steps, "kill")
    /\ pc' = "rb_build"
    /\ NoExit
    /\ UNCHANGED <<settings, bridgeVars, recv_log, spawned, child, GLOBAL_CHILD,
                   new_child, pid_file, exit_graceful, change_count, paused, state,
                   persisted, branch, histVars, mergeVars, auxVars>>

\* main.rs 206-215
RebuildBuild == BuildStep("rb_build", "rb_spawn")

\* main.rs 217 (the argument of replace_child)
RebuildSpawn == create_child("rb_spawn", "rb_replace")

\* main.rs 217-226: replace_child, resume the monitor, reset the counter.
RebuildReplace ==
    /\ pc = "rb_replace"
    /\ GLOBAL_CHILD' = new_child
    /\ paused' = FALSE
    /\ change_count' = 0
    /\ steps' = steps \o <<"replace", "resume">>
    /\ pc' = "reload_chk"
    /\ NoExit
    /\ UNCHANGED <<settings, bridgeVars, recv_log, alive, spawned, child, new_child,
                   pid_file, flagVars, state, persisted, branch, histVars,
                   mergeVars, auxVars>>

\* --------------------------------------------------- select: the timer branch
\* get_std_out / get_std_err of a handle: the lines captured so far, or an
\* error (taken as an empty batch).
\* main.rs 238-274: both streams merged into the state.
merge_output(s, out, err) ==
    [s EXCEPT !.stdout = Merge(@, out), !.stderr = Merge(@, err)]

StdoutBatches == {<<>>, <<TickEntry>>}
StderrBatches == {<<>>}

\* main.rs 276: the liveness check is made on the global child.
LivenessOfLocal == child # 0 /\ ~running(child)

respawn_needed == GLOBAL_CHILD # 0 /\ ~running(GLOBAL_CHILD)

\* main.rs 229-281: merge the captured output, check liveness.
SelectTick ==
    /\ Listening
    /\ branch' = "tick"
    /\ steps' = <<>>
    /\ \E o \in StdoutBatches, e \in StderrBatches :
        state' = merge_output(state, o, e)
    /\ tick_dead' = (GLOBAL_CHILD \notin alive)
    /\ pc' = IF respawn_needed THEN "rs_kill" ELSE "tk_metrics"
    /\ NoExit
    /\ UNCHANGED <<settings, bridgeVars, recv_log, procVars, flagVars, change_count,
                   paused, persisted, rebuilds, build_failed, faults, mergeVars, auxVars>>

\* main.rs 285-289: kill through the local handle, the result is only logged.
RespawnKill ==
    /\ pc = "rs_kill"
    /\ \E res \in {"Ok", "Err"} : kill(child, res)
    /\ steps' = Append(steps, "kill")
    /\ pc' = "rs_build"
    /\ NoExit
    /\ UNCHANGED <<settings, bridgeVars, recv_log, spawned, child, GLOBAL_CHILD,
                   new_child, pid_file, flagVars, change_count, paused, state,
                   persisted, branch, histVars, mergeVars, auxVars>>

\* main.rs 291-297
RespawnBuild == BuildStep("rs_build", "rs_spawn")

\* main.rs 301 (the argument of replace_child)
RespawnSpawn == create_child("rs_spawn", "rs_replace")

RespawnReplaceResetsCount ==
    /\ pc = "rs_replace"
    /\ GLOBAL_CHILD' = new_child
    /\ change_count' = 0
    /\ state' = [state EXCEPT !.status = "Running"]
    /\ persisted' = state'
    /\ steps' = Append(steps, "replace")
    /\ pc' = "tk_metrics"
    /\ NoExit
    /\ UNCHANGED <<settings, bridgeVars, recv_log, alive, spawned, child, new_child,
                   pid_file, flagVars, paused, branch, histVars, mergeVars, auxVars>>

\* main.rs 301-312: replace_child, phase Running, persist.
RespawnReplace ==
    /\ pc = "rs_replace"
    /\ GLOBAL_CHILD' = new_child
    /\ state' = [state EXCEPT !.status = "Running"]
    /\ persisted' = state'
    /\ steps' = Append(steps, "replace")
    /\ pc' = "tk_metrics"
    /\ NoExit
    /\ UNCHANGED <<settings, bridgeVars, recv_log, alive, spawned, child, new_child,
                   pid_file, flagVars, change_count, paused, branch,
                   histVars, mergeVars, auxVars>>

TrimErrorLogNoEviction(log) == Dedup(log)

\* main.rs 317-320: dedup the error log, drop the oldest entry at the cap.
TrimErrorLog(log) ==
    LET d == Dedup(log)
    IN IF Len(d) >= ErrorLogCap THEN Tail(d) ELSE d

MetricsUnreadableKeepsPhase(s, trimmed) ==
    [s EXCEPT !.error_log = Append(trimmed, "MetricsFailed")]

\* main.rs 331-336: get_metrics returned Err: an error entry, phase Warning.
MetricsUnreadable(s, trimmed) ==
    [s EXCEPT !.error_log = Append(trimmed, "MetricsFailed"),
              !.status = "Warning"]

ExceedsRamLimit(memory_usage, max_ram_usage) == memory_usage > max_ram_usage

\* main.rs 326: metrics.memory_usage >= state.config.max_ram_usage as f64
OverRamLimit(memory_usage, max_ram_usage) == memory_usage >= max_ram_usage

\* main.rs 322-337: the metrics of the local handle; the memory ceiling.
TickMetrics ==
    /\ pc = "tk_metrics"
    /\ LET trimmed == TrimErrorLog(state.error_log)
       IN \/ \E memory_usage \in 0..(MaxRamUsage + 1) :
               /\ memory_usage >= MaxRamUsage => faults < MaxFaults
               /\ faults' = IF memory_usage >= MaxRamUsage THEN faults + 1 ELSE faults
               /\ sampled' = memory_usage
               /\ state' = [state EXCEPT
                               !.error_log = IF OverRamLimit(memory_usage, MaxRamUsage)
                                             THEN Append(trimmed, "OverRamLimit")
                                             ELSE trimmed,
                               !.status = "Running"]
          \/ /\ faults < MaxFaults
             /\ faults' = faults + 1
             /\ sampled' = -1
             /\ state' = MetricsUnreadable(state, trimmed)
    /\ persisted' = state'
    /\ pc' = "reload_chk"
    /\ NoExit
    /\ UNCHANGED <<settings, bridgeVars, recv_log, procVars, flagVars, change_count,
                   paused, branch, steps, rebuilds, tick_dead, build_failed,
                   mergeVars, reload_req, timer>>

\* main.rs 340-343
SelectCtrlC ==
    /\ Listening
    /\ branch' = "ctrl_c"
    /\ steps' = <<>>
    /\ tick_dead' = FALSE
    /\ exit_graceful' = TRUE
    /\ pc' = "reload_chk"
    /\ NoExit
    /\ UNCHANGED <<settings, bridgeVars, recv_log, procVars, reload, change_count,
                   paused, state, persisted, rebuilds, build_failed, faults,
                   mergeVars, auxVars>>


\* ------------------------------------------------------------------ reload
ReloadCheckClearsFlag ==
    /\ pc = "reload_chk"
    /\ IF reload
       THEN /\ state' = generate_application_state
            /\ persisted' = state'
            /\ steps' = Append(steps, "reload")
            /\ reload_req' = FALSE
            /\ pc' = "rl_kill"
            /\ reload' = FALSE
       ELSE /\ pc' = "exit_chk"
            /\ UNCHANGED <<state, persisted, steps, reload_req, reload>>
    /\ NoExit
    /\ UNCHANGED <<settings, bridgeVars, recv_log, procVars, exit_graceful, change_count,
                   paused, branch, histVars, mergeVars, timer, sampled>>

\* main.rs 346-353: poll the reload flag; reload the configuration and
\* re-initialise the state.
ReloadCheck ==
    /\ pc = "reload_chk"
    /\ IF reload
       THEN /\ state' = generate_application_state
            /\ persisted' = state'
            /\ steps' = Append(steps, "reload")
            /\ reload_req' = FALSE
            /\ pc' = "rl_kill"
       ELSE /\ pc' = "exit_chk"
            /\ UNCHANGED <<state, persisted, steps, reload_req>>
    /\ NoExit
    /\ UNCHANGED <<settings, bridgeVars, recv_log, procVars, flagVars, change_count,
                   paused, branch, histVars, mergeVars, timer, sampled>>

ReloadKillContinues ==
    /\ pc = "rl_kill"
    /\ \E res \in {"Ok", "Err"} :
        /\ kill(child, res)
        /\ IF res = "Ok"
           THEN UNCHANGED <<state, persisted>>
           ELSE /\ state' = log_error(state, "KillFailed")
                /\ persisted' = state'
    /\ pc' = "rl_build"
    /\ NoExit
    /\ steps' = Append(steps, "kill")
    /\ UNCHANGED <<settings, bridgeVars, recv_log, spawned, child, GLOBAL_CHILD,
                   new_child, pid_file, flagVars, change_count, paused, branch, histVars, mergeVars, auxVars>>

\* main.rs 355-361: kill through the local handle; an error is fatal.
ReloadKill ==
    /\ pc = "rl_kill"
    /\ \E res \in {"Ok", "Err"} :
        /\ kill(child, res)
        /\ IF res = "Ok"
           THEN /\ pc' = "rl_build"
                /\ NoExit
                /\ UNCHANGED <<state, persisted>>
           ELSE /\ state' = wind_down_state(log_error(state, "KillFailed"))
                /\ persisted' = state'
                /\ Exit(ExitFailure, "reload_kill_failed")
    /\ steps' = Append(steps, "kill")
    /\ UNCHANGED <<settings, bridgeVars, recv_log, spawned, child, GLOBAL_CHILD,
                   new_child, pid_file, flagVars, change_count, paused, branch, histVars, mergeVars, auxVars>>

\* main.rs 363-370
ReloadBuild == BuildStep("rl_build", "rl_spawn")

\* main.rs 373 (the argument of replace_child)
ReloadSpawn == create_child("rl_spawn", "rl_replace")

\* main.rs 373-380: replace_child, clear the reload flag.
ReloadReplace ==
    /\ pc = "rl_replace"
    /\ GLOBAL_CHILD' = new_child
    /\ reload' = FALSE
    /\ steps' = steps \o <<"replace", "clear_reload">>
    /\ pc' = "exit_chk"
    /\ NoExit
    /\ UNCHANGED <<settings, bridgeVars, recv_log, alive, spawned, child, new_child,
                   pid_file, exit_graceful, change_count, paused, state, persisted,
                   branch, histVars, mergeVars, auxVars>>

\* ------------------------------------------------------------ graceful exit
ExitCheckIgnoresFlag ==
    /\ pc = "exit_chk"
    /\ pc' = "select"
    /\ branch' = "none"
    /\ steps' = <<>>
    /\ tick_dead' = FALSE
    /\ timer' = 0
    /\ NoExit
    /\ UNCHANGED <<settings, bridgeVars, recv_log, procVars, flagVars, change_count,
                   paused, state, persisted, rebuilds, build_failed, faults,
                   mergeVars, reload_req, sampled>>

\* main.rs 383: poll the exit flag; otherwise the loop selects again, with
\* a new sleep (main.rs 229).
ExitCheck ==
    /\ pc = "exit_chk"
    /\ IF exit_graceful
       THEN /\ pc' = "ex_kill"
            /\ UNCHANGED <<branch, steps, tick_dead, timer>>
       ELSE /\ pc' = "select"
            /\ branch' = "none"
            /\ steps' = <<>>
            /\ tick_dead' = FALSE
            /\ timer' = 0
    /\ NoExit
    /\ UNCHANGED <<settings, bridgeVars, recv_log, procVars, flagVars, change_count,
                   paused, state, persisted, rebuilds, build_failed, faults,
                   mergeVars, reload_req, sampled>>

\* The exit code of the three outcomes of timeout(5 s, child.kill()).
ExitCodeAlwaysZero(outcome) == ExitSuccess

ExitCodeOf(outcome) == IF outcome = "Ok" THEN ExitSuccess ELSE ExitFailure

\* main.rs 385-412: kill through the local handle within the timeout, mark
\* Stopping, wind down, exit.
GracefulExit ==
    /\ pc = "ex_kill"
    /\ \E outcome \in {"Ok", "Err", "Elapsed"} :
        /\ kill(child, outcome)
        /\ state' = CASE outcome = "Ok" ->
                           wind_down_state([state EXCEPT !.status = "Stopping"])
                      [] outcome = "Err" ->
                           wind_down_state([state EXCEPT
                               !.status = "Stopping",
                               !.error_log = Append(@, "KillFailed")])
                      [] outcome = "Elapsed" ->
                           wind_down_state(log_error(state, "TimedOut"))
        /\ Exit(ExitCodeOf(outcome),
                CASE outcome = "Ok" -> "graceful_ok"
                  [] outcome = "Err" -> "graceful_err"
                  [] outcome = "Elapsed" -> "graceful_timeout")
    /\ persisted' = state'
    /\ steps' = Append(steps, "kill")
    /\ UNCHANGED <<settings, bridgeVars, recv_log, spawned, child, GLOBAL_CHILD,
                   new_child, pid_file, flagVars, change_count, paused, branch, histVars, mergeVars, auxVars>>

\* ----------------------------------------------------------- specification
Next ==
    \/ Startup \/ StartupBuild \/ StartupSpawn \/ StartupInit \/ Subscribe
    \/ SelectChange \/ RebuildKill \/ RebuildBuild \/ RebuildSpawn \/ RebuildReplace
    \/ SelectTick \/ RespawnKill \/ RespawnBuild \/ RespawnSpawn \/ RespawnReplace
    \/ TickMetrics \/ SelectCtrlC
    \/ ReloadCheck \/ ReloadKill \/ ReloadBuild \/ ReloadSpawn \/ ReloadReplace
    \/ ExitCheck \/ GracefulExit
    \/ WatcherThread \/ sighup_watch \/ sigusr_watch \/ Crash

Spec == Init /\ [][Next]_vars

\* The steps of the main task (main.rs 41-425), without the threads and the
\* environment.
MainStep ==
    \/ Startup \/ StartupBuild \/ StartupSpawn \/ StartupInit \/ Subscribe
    \/ SelectChange \/ RebuildKill \/ RebuildBuild \/ RebuildSpawn \/ RebuildReplace
    \/ SelectTick \/ RespawnKill \/ RespawnBuild \/ RespawnSpawn \/ RespawnReplace
    \/ TickMetrics \/ SelectCtrlC
    \/ ReloadCheck \/ ReloadKill \/ ReloadBuild \/ ReloadSpawn \/ ReloadReplace
    \/ ExitCheck \/ GracefulExit

\* The same engine with a main task that always takes its next step: every
\* awaited call returns, and the sleep of the select completes when nothing
\* else does.
SpecLive == Init /\ [][Next]_vars /\ WF_vars(MainStep)


\* ------------------------------------------- the filter and the counter alone
\* The engine at its select point after a start-up without incident, with a
\* threshold no run of MaxRaw notifications reaches; the filter thread and
\* the change branch run, no signal arrives.
FilterSettings ==
    [changes_needed : {MaxRaw + 1},
     install_command : {FALSE},
     build_command : {FALSE},
     ignored_subdirs : IgnoreLists]

\* The engine at its select point, workload 1 installed and running.
AtSelect ==
    /\ pc = "select"
    /\ raw_all = <<>>
    /\ event_q = <<>>
    /\ recv_log = <<>>
    /\ alive = {1}
    /\ spawned = 1
    /\ child = 1
    /\ GLOBAL_CHILD = 1
    /\ new_child = 1
    /\ pid_file = 1
    /\ reload = FALSE
    /\ exit_graceful = FALSE
    /\ change_count = 0
    /\ paused = FALSE
    /\ exit_code = -1
    /\ exit_path = "none"
    /\ branch = "none"
    /\ steps = <<>>
    /\ rebuilds = 0
    /\ tick_dead = FALSE
    /\ build_failed = FALSE
    /\ faults = 0
    /\ reload_req = FALSE
    /\ timer = 0
    /\ sampled = -1
    /\ merges = 0

InitFilter ==
    /\ AtSelect
    /\ settings \in FilterSettings
    /\ state = [generate_application_state EXCEPT !.status = "Running"]
    /\ persisted = state
    /\ batch = <<>>
    /\ before = state

NextFilter == WatcherThreadTraced \/ SelectChange \/ ReloadCheck \/ ExitCheck

SpecFilter == InitFilter /\ [][NextFilter]_vars

\* ------------------------------------------------------- the merge alone
\* The merge of the health tick applied twice to one batch, from any earlier
\* content of the buffers.
InitMerge ==
    /\ AtSelect
    /\ settings \in FilterSettings
    /\ batch \in SeqsUpTo(Entries, MaxBuf)
    /\ \E buf \in SeqsUpTo(Entries, MaxBuf) :
         state = [generate_application_state EXCEPT
                     !.status = "Running", !.stdout = buf, !.stderr = buf]
    /\ persisted = [generate_application_state EXCEPT !.status = "Running"]
    /\ before = state

MergeBatch ==
    /\ merges < 2
    /\ merges' = merges + 1
    /\ before' = state
    /\ state' = merge_output(state, batch, batch)
    /\ UNCHANGED <<pc, settings, bridgeVars, recv_log, procVars, flagVars,
                   change_count, paused, persisted, exit_code, exit_path, branch,
                   steps, histVars, batch, auxVars>>

SpecMerge == InitMerge /\ [][MergeBatch]_vars


\* ---------------------------------------------------- the error log alone
\* The entries a health tick appends (main.rs 327, 333).
LogEntries == {"OverRamLimit", "MetricsFailed"}

\* The error logs earlier ticks can have left: at most ErrorLogCap entries,
\* adjacent entries equal only at the end (the latest append is deduplicated
\* by the next tick).
ReachableLogs ==
    {l \in SeqsUpTo(LogEntries, ErrorLogCap) :
        \A i \in 1..(Len(l) - 2) : l[i] # l[i + 1]}

\* The engine at its select point with such an error log; ticks follow, one
\* of them failing, and a graceful exit.
InitErrorLog ==
    /\ AtSelect
    /\ settings \in FilterSettings
    /\ \E l \in ReachableLogs :
         state = [generate_application_state EXCEPT
                     !.status = "Running", !.error_log = l]
    /\ persisted = state
    /\ batch = <<>>
    /\ before = state

NextErrorLog ==
    \/ SelectTick \/ TickMetrics \/ ReloadCheck \/ ExitCheck
    \/ sigusr_watch \/ GracefulExit

SpecErrorLog == InitErrorLog /\ [][NextErrorLog]_vars

\* ------------------------------------------------ the select and its timer
\* One unit of time passes. The sleep of the current select completes when
\* TickInterval units have passed since the select was entered.
AdvanceTime ==
    /\ pc # "exited"
    /\ timer < TickInterval
    /\ timer' = timer + 1
    /\ UNCHANGED <<pc, settings, bridgeVars, recv_log, procVars, flagVars,
                   change_count, paused, state, persisted, exit_code, exit_path,
                   branch, steps, histVars, mergeVars, reload_req, sampled>>

\* main.rs 229: the timer branch is ready when the sleep has completed.
SelectTickTimed == timer = TickInterval /\ SelectTick

\* main.rs 171-228 as one step, in a run without incident: the event is
\* counted; at the threshold the whole rebuild runs (pause, phase Building,
\* kill Ok, spawn Ok, replace_child, resume, reset), the new workload taking
\* the place of the old one. The histories of the run are not recorded.
ChangeBranchTimed ==
    /\ Listening
    /\ event_q # <<>>
    /\ event_q' = Tail(event_q)
    /\ branch' = "change"
    /\ IF ThresholdReached(change_count + 1, settings.changes_needed)
       THEN /\ change_count' = 0
            /\ state' = [state EXCEPT !.status = "Building"]
            /\ persisted' = state'
       ELSE /\ change_count' = change_count + 1
            /\ UNCHANGED <<state, persisted>>
    /\ pc' = "reload_chk"
    /\ NoExit
    /\ UNCHANGED <<settings, raw_all, recv_log, procVars, flagVars, paused, steps,
                   histVars, mergeVars, auxVars>>

TimerSettings ==
    [changes_needed : 1..MaxThreshold,
     install_command : {FALSE},
     build_command : {FALSE},
     ignored_subdirs : {<<<<"t">>>>}]

InitTimer ==
    /\ AtSelect
    /\ settings \in TimerSettings
    /\ state = [generate_application_state EXCEPT !.status = "Running"]
    /\ persisted = state
    /\ batch = <<>>
    /\ before = state

NextTimer ==
    \/ AdvanceTime \/ WatcherThread \/ ChangeBranchTimed \/ SelectTickTimed
    \/ TickMetrics \/ ReloadCheck \/ ExitCheck

\* The main task always takes its next step and time always passes; when
\* both the channel and the sleep are ready tokio::select! picks at random,
\* so a timer branch that is ready again and again is taken. Nothing is
\* assumed of the arrival of change events.
SpecTimer ==
    /\ InitTimer
    /\ [][NextTimer]_vars
    /\ WF_vars(AdvanceTime)
    /\ WF_vars(ChangeBranchTimed)
    /\ SF_vars(SelectTickTimed)
    /\ WF_vars(TickMetrics)
    /\ WF_vars(ReloadCheck)
    /\ WF_vars(ExitCheck)

\* ------------------------------------------- the subscription of the main loop
\* The receiver main() selects on is the monitor's subscription
\* (main.rs 151), a tokio::sync::broadcast::Receiver (global_child.rs 8, 58):
\* the channel keeps the BroadcastCapacity newest values, a send never waits,
\* and a send to a full channel overwrites the oldest value. The receiver
\* that was overtaken gets Err(Lagged) once, which the pattern
\* `Ok(event) = event_rx.recv()` (main.rs 171) discards, and then the oldest
\* value still kept. raw_all records the events sent.
BroadcastSend ==
    /\ pc # "exited"
    /\ Len(raw_all) < BroadcastCapacity + 1
    /\ \E event \in RawEventsSmall :
        /\ raw_all' = Append(raw_all, event)
        /\ event_q' = IF Len(event_q) < BroadcastCapacity
                      THEN Append(event_q, event)
                      ELSE Append(Tail(event_q), event)
    /\ UNCHANGED <<pc, settings, recv_log, procVars, flagVars, change_count,
                   paused, state, persisted, exit_code, exit_path, branch,
                   steps, histVars, mergeVars, auxVars>>

BroadcastSettings ==
    [changes_needed : 1..MaxThreshold,
     install_command : {FALSE},
     build_command : BOOLEAN,
     ignored_subdirs : {<<>>}]

InitBroadcast ==
    /\ AtSelect
    /\ settings \in BroadcastSettings
    /\ state = [generate_application_state EXCEPT !.status = "Running"]
    /\ persisted = state
    /\ batch = <<>>
    /\ before = state

\* The monitor publishes while the main loop receives, counts and rebuilds.
NextBroadcast ==
    \/ BroadcastSend
    \/ SelectChange \/ RebuildKill \/ RebuildBuild \/ RebuildSpawn \/ RebuildReplace
    \/ SelectTick \/ TickMetrics \/ ReloadCheck \/ ExitCheck

SpecBroadcast == InitBroadcast /\ [][NextBroadcast]_vars

\* ------------------------------------------------------- the persist alone
\* In this part the state carries the two fields update_state maintains,
\* event_counter and last_updated; merges counts the calls, before is the
\* state handed to the latest call.
update_state_keeps_count(s, now) == [s EXCEPT !.last_updated = now]

\* state_persistence::update_state, as update_state_increments_counter
\* observes it (tests/basic.rs 65-71): the event counter goes up by one, the
\* last-update time is set to the clock's reading, the state is saved.
update_state(s, now) ==
    [s EXCEPT !.event_counter = @ + 1, !.last_updated = now]

\* The readings current_timestamp() can give after reading t.
ClockFrom(t) == t..MaxClock

InitPersist ==
    /\ AtSelect
    /\ settings \in FilterSettings
    /\ \E c \in 0..1, t \in 0..1 :
         state = [status |-> "Running", error_log |-> <<>>, stdout |-> <<>>,
                  stderr |-> <<>>, event_counter |-> c, last_updated |-> t]
    /\ persisted = state
    /\ before = state
    /\ batch = <<>>

\* A persist of the state as it is (main.rs 90, 119, 168, 312, 330, 335),
\* with a phase the caller has set.
PersistState ==
    /\ merges < MaxPersists
    /\ merges' = merges + 1
    /\ \E st \in Statuses \ {"Starting"}, now \in ClockFrom(state.last_updated) :
        /\ before' = [state EXCEPT !.status = st]
        /\ state' = update_state(before', now)
    /\ persisted' = state'
    /\ UNCHANGED <<pc, settings, bridgeVars, recv_log, procVars, flagVars,
                   change_count, paused, exit_code, exit_path, branch,
                   steps, histVars, batch, auxVars>>

\* main.rs 184-186: the rebuild counts itself, sets phase Building, persists.
PersistRebuild ==
    /\ merges < MaxPersists
    /\ merges' = merges + 1
    /\ \E now \in ClockFrom(state.last_updated) :
        /\ before' = [state EXCEPT !.event_counter = @ + 1, !.status = "Building"]
        /\ state' = update_state(before', now)
    /\ persisted' = state'
    /\ UNCHANGED <<pc, settings, bridgeVars, recv_log, procVars, flagVars,
                   change_count, paused, exit_code, exit_path, branch,
                   steps, histVars, batch, auxVars>>

\* main.rs 353 with config.rs 49-65: the saved state is loaded, stamped,
\* set to Starting, its logs and buffers cleared, and persisted.
PersistReload ==
    /\ merges < MaxPersists
    /\ merges' = merges + 1
    /\ \E stamp \in ClockFrom(persisted.last_updated) :
        /\ before' = [persisted EXCEPT !.status = "Starting", !.error_log = <<>>,
                                       !.stdout = <<>>, !.stderr = <<>>,
                                       !.last_updated = stamp]
        /\ \E now \in ClockFrom(stamp) : state' = update_state(before', now)
    /\ persisted' = state'
    /\ UNCHANGED <<pc, settings, bridgeVars, recv_log, procVars, flagVars,
                   change_count, paused, exit_code, exit_path, branch,
                   steps, histVars, batch, auxVars>>

NextPersist == PersistState \/ PersistRebuild \/ PersistReload

SpecPersist == InitPersist /\ [][NextPersist]_vars

\* ------------------------------------------------------------------ claims
Range(seq) == {seq[i] : i \in 1..Len(seq)}

\* C1: at most one workload process spawned by the engine is alive at any
\* time: when a new workload is spawned and installed, the previously
\* installed one has been terminated, also when its kill reported an error.
C1_AtMostOneAlive ==
    /\ Cardinality(alive) <= 1
    /\ pc \in {"rb_replace", "rs_replace", "rl_replace"} => ~running(GLOBAL_CHILD)

\* C2: starting from a counter of 0, while fewer filtered change events than
\* the threshold have been received, no change-triggered rebuild has
\* occurred or is under way, and the counter equals the number of events.
C2_BelowThreshold ==
    Len(recv_log) < settings.changes_needed =>
        /\ rebuilds = 0
        /\ pc \notin {"rb_kill", "rb_build", "rb_spawn", "rb_replace"}
        /\ change_count = Len(recv_log)

C2_Witness ==
    /\ pc = "select"
    /\ settings.changes_needed = 2
    /\ Len(recv_log) = 1
    /\ change_count = 1

Dropped(event) ==
    \E path \in Range(event) :
        \E ignored \in Range(ignored_paths(settings.ignored_subdirs)) :
            StartsWith(path, ignored)

RECURSIVE Kept(_)
Kept(raw) ==
    IF raw = <<>> THEN <<>>
    ELSE IF Dropped(Head(raw)) THEN Kept(Tail(raw))
    ELSE <<Head(raw)>> \o Kept(Tail(raw))

RespawnSequence ==
    <<"kill">> \o (IF settings.build_command THEN <<"build">> ELSE <<>>)
        \o <<"spawn", "replace">>

\* C5: a health tick that finds the installed workload not running runs the
\* respawn sequence (build only if configured, spawn, install) exactly once
\* and installs the new workload; a tick that finds it running starts no
\* respawn.
C5_TickRespawnsOnce ==
    branch = "tick" =>
        /\ ~tick_dead => pc \notin {"rs_kill", "rs_build", "rs_spawn", "rs_replace"}
        /\ (~tick_dead /\ pc \in {"tk_metrics", "reload_chk"}) => steps = <<>>
        /\ (tick_dead /\ pc \in {"tk_metrics", "reload_chk"}) =>
              /\ steps = RespawnSequence
              /\ GLOBAL_CHILD = spawned

C5_Witness ==
    /\ branch = "tick"
    /\ tick_dead
    /\ pc = "reload_chk"
    /\ settings.build_command
    /\ steps = <<"kill", "build", "spawn", "replace">>
    /\ GLOBAL_CHILD = 2
    /\ running(GLOBAL_CHILD)

\* C6: a graceful exit whose kill succeeds within the timeout leaves the
\* currently installed workload terminated, the persisted phase Stopping and
\* the exit code 0, after any earlier rebuilds, respawns and reloads.
C6_GracefulExitTerminatesWorkload ==
    exit_path = "graceful_ok" =>
        /\ ~running(GLOBAL_CHILD)
        /\ persisted.status = "Stopping"
        /\ exit_code = ExitSuccess

\* C7: a graceful exit whose kill times out or returns an error ends with
\* the persisted phase Stopping, an entry for the timeout or the error in
\* the persisted error log, and exit code 100, never 0.
C7_FailedTerminationExit ==
    /\ exit_path = "graceful_err" =>
          /\ exit_code = ExitFailure
          /\ persisted.status = "Stopping"
          /\ "KillFailed" \in Range(persisted.error_log)
    /\ exit_path = "graceful_timeout" =>
          /\ exit_code = ExitFailure
          /\ persisted.status = "Stopping"
          /\ "TimedOut" \in Range(persisted.error_log)

C7_Witness ==
    /\ exit_path = "graceful_timeout"
    /\ pc = "exited"
    /\ exit_code = ExitFailure
    /\ rebuilds = 1

\* C8: merging the same batch a second time, with no new output, leaves the
\* merged stdout and stderr buffers unchanged in content and length.
C8_MergeIdempotent ==
    merges = 2 =>
        /\ state.stdout = before.stdout
        /\ state.stderr = before.stderr
        /\ Len(state.stdout) = Len(before.stdout)

C8_Witness ==
    /\ merges = 2
    /\ Len(batch) = 2
    /\ batch[1][1] = batch[2][1]
    /\ batch[1] # batch[2]
    /\ Len(state.stdout) = 3
    /\ state.stdout = before.stdout

\* C9: after a configured build step has failed, in any of its four places,
\* the run has ended at that failure and no workload was spawned after it.
C9_BuildFailureEndsRun ==
    build_failed =>
        /\ pc = "exited"
        /\ exit_path = "build_failed"
        /\ pc \notin {"s_spawn", "rb_spawn", "rs_spawn", "rl_spawn"}
        /\ steps # <<>> /\ steps[Len(steps)] = "build"

C9_Witness ==
    /\ build_failed
    /\ pc = "exited"
    /\ "reload" \in Range(steps)
    /\ steps[Len(steps)] = "build"

\* C10: for every fatal condition (build failure, spawn failure, watcher
\* subscription failure, kill failure during reload) the engine winds down
\* before it exits: the cause is in the persisted error log and the last
\* persisted phase is Stopping.
C10_FatalWindDown ==
    /\ exit_path = "build_failed" =>
          ("BuildFailed" \in Range(persisted.error_log) /\ persisted.status = "Stopping")
    /\ exit_path = "spawn_failed" =>
          ("SpawnFailed" \in Range(persisted.error_log) /\ persisted.status = "Stopping")
    /\ exit_path = "subscribe_failed" =>
          ("SubscribeFailed" \in Range(persisted.error_log) /\ persisted.status = "Stopping")
    /\ exit_path = "reload_kill_failed" =>
          ("KillFailed" \in Range(persisted.error_log) /\ persisted.status = "Stopping")


\* The phase changes of the lifecycle: Starting -> Building -> Running <->
\* Warning, Running -> Building, and any phase -> Stopping.
AllowedPhaseChanges ==
    {<<"Starting", "Building">>, <<"Building", "Running">>,
     <<"Running", "Building">>, <<"Running", "Warning">>,
     <<"Warning", "Running">>} \cup (Statuses \X {"Stopping"})

\* C11: every change of the persisted phase is one of the lifecycle's
\* transitions, and once the persisted phase is Stopping neither the phase
\* changes nor a workload is spawned.
C11_PhaseTransitions ==
    [][/\ persisted'.status # persisted.status =>
             <<persisted.status, persisted'.status>> \in AllowedPhaseChanges
       /\ persisted.status = "Stopping" =>
             (persisted'.status = "Stopping" /\ spawned' = spawned)]_vars

\* C12: once the graceful-exit flag is set the main loop spawns no workload
\* any more: it handles the shutdown before the spawn step of a rebuild, a
\* crash respawn or a reload begins.
C12_NoSpawnAfterExitRequest ==
    [][(exit_graceful /\ pc \in {"rb_spawn", "rs_spawn", "rl_spawn"}) =>
           spawned' = spawned]_vars

\* C13: a reload request made by the SIGHUP thread stays in the reload flag
\* until a reload starts after it, and the graceful-exit flag, once set, stays
\* set until the engine has exited: no request is cleared without being served.
C13_RequestsNotLost ==
    [][/\ reload_req' => reload'
       /\ exit_graceful => exit_graceful']_vars

\* The actions carried out to completion since the last select.
RebuildDone == "resume" \in Range(steps)

RespawnDone ==
    /\ branch = "tick"
    /\ Len(steps) >= 2
    /\ steps[1] = "kill"
    /\ \E i \in 2..Len(steps) :
          steps[i] = "replace" /\ \A j \in 1..i : steps[j] # "reload"

ReloadDone == "clear_reload" \in Range(steps)

ShutdownDone == exit_path \in {"graceful_ok", "graceful_err", "graceful_timeout"}

CarriedOut ==
    {a \in {"rebuild", "respawn", "reload", "shutdown"} :
        \/ a = "rebuild" /\ RebuildDone
        \/ a = "respawn" /\ RespawnDone
        \/ a = "reload" /\ ReloadDone
        \/ a = "shutdown" /\ ShutdownDone}

\* C14: between one select and the next at most one of change-threshold
\* rebuild, crash respawn, reload and shutdown is carried out.
C14_OneActionPerIteration == Cardinality(CarriedOut) <= 1

\* The positions of the main task inside a teardown-build-spawn-install
\* sequence, and the positions a sequence starts at.
InFlight ==
    {"rb_kill", "rb_build", "rb_spawn", "rb_replace",
     "rs_kill", "rs_build", "rs_spawn", "rs_replace",
     "rl_kill", "rl_build", "rl_spawn", "rl_replace"}

SequenceStarts == {"rb_kill", "rs_kill", "rl_kill"}

IsPrefix(s, t) == Len(s) <= Len(t) /\ \A i \in 1..Len(s) : s[i] = t[i]

C16_CounterFrame ==
    [][/\ change_count' # change_count =>
             \/ (recv_log' # recv_log /\ change_count' = change_count + 1)
             \/ (pc = "rb_replace" /\ change_count' = 0)
       /\ recv_log' # recv_log => change_count' = change_count + 1
       /\ (pc = "rb_replace" /\ pc' # pc) => change_count' = 0]_vars

\* A crash respawn has been carried out by a tick while one event was
\* counted: the counter still holds it.
C16_Witness ==
    /\ branch = "tick"
    /\ RespawnDone
    /\ pc = "exit_chk"
    /\ change_count = 1
    /\ Len(recv_log) = 1

\* The health tick that is finishing has appended entry e to the error log.
TickAppends(e) ==
    /\ pc = "tk_metrics"
    /\ pc' # pc
    /\ state'.error_log = Append(TrimErrorLog(state.error_log), e)

\* C17: a health tick that finds the memory usage at or above the ceiling
\* persists phase Warning, as does a tick that cannot read the metrics.
C17_OverLimitIsWarning ==
    [][/\ TickAppends("OverRamLimit") => persisted'.status = "Warning"
       /\ TickAppends("MetricsFailed") => persisted'.status = "Warning"]_vars

\* C18: every snapshot persisted while the engine runs holds at most
\* ErrorLogCap entries of the error log, the last snapshot of a run that ends
\* with an error at most one more; a tick that finds the log at the cap
\* drops its oldest entry and keeps the others in their order.
C18_ErrorLogCapped ==
    [][/\ Len(persisted'.error_log) <=
             ErrorLogCap + (IF pc' = "exited" THEN 1 ELSE 0)
       /\ (pc = "tk_metrics" /\ pc' # pc /\
              Len(Dedup(state.error_log)) >= ErrorLogCap) =>
             IsPrefix(Tail(Dedup(state.error_log)), state'.error_log)
       /\ pc' # "exited" => persisted'.error_log \in ReachableLogs]_vars

\* A failing tick has run on a log that was at the cap: the oldest entry is
\* gone and the log is at the cap again.
C18_Witness ==
    /\ Len(before.error_log) = ErrorLogCap
    /\ branch = "tick"
    /\ pc = "reload_chk"
    /\ faults = 1
    /\ Len(persisted.error_log) = ErrorLogCap
    /\ persisted.error_log[1] = before.error_log[2]

\* The steps of a change-threshold rebuild, in order, for the configuration.
ExpectedRebuild ==
    <<"pause", "kill">>
    \o (IF settings.install_command THEN <<"install_cmd">> ELSE <<>>)
    \o (IF settings.build_command THEN <<"build">> ELSE <<>>)
    \o <<"spawn", "replace", "resume">>

\* C19: a change-threshold rebuild pauses change processing, terminates the
\* workload, runs the install step if configured, runs the build step if
\* configured, spawns and installs the new workload and resumes, in this
\* order; change processing is not paused when the loop is at its select.
C19_RebuildOrder ==
    /\ (branch = "change" /\ pc = "reload_chk" /\ steps # <<>>) =>
          steps = ExpectedRebuild
    /\ pc = "select" => ~paused

\* C20: with the main task and the clock fair, the health tick runs
\* infinitely often in every execution that does not terminate, whatever
\* the stream of change events.
C20_TickInfinitelyOften == []<>(branch = "tick")

\* The main task is at a spawn step that the bound on spawns keeps from
\* being taken (the run is not followed further).
SpawnBlocked ==
    /\ pc \in {"s_spawn", "rb_spawn", "rs_spawn", "rl_spawn"}
    /\ spawned >= MaxSpawns

C22_NoEventLost ==
    /\ recv_log \o event_q = raw_all
    /\ (pc = "select" /\ rebuilds = 0) => change_count = Len(recv_log)

InstallFailed == steps # <<>> /\ steps[1] = "install_failed"

\* C25: a failed install step does not end the start-up sequence: main goes on
\* to the build step without exiting, a configured build command is run, and
\* the spawn step is run after it (a process is spawned, or the spawn itself
\* fails); the engine never exits by the install failure itself.
C25_InstallFailureContinues ==
    [][/\ (pc = "main" /\ pc' # pc /\ settings.install_command) =>
              pc' = "s_build" /\ exit_code' = -1
       /\ (InstallFailed /\ pc = "s_build" /\ pc' # pc) =>
              /\ settings.build_command => steps' = <<"install_failed", "build">>
              /\ build_failed' = build_failed => pc' = "s_spawn"
       /\ (InstallFailed /\ pc = "s_spawn" /\ pc' # pc) =>
              spawned' = spawned + 1 \/ exit_path' = "spawn_failed"
       /\ exit_path' # "install_failed"]_vars

C25_Witness ==
    /\ pc = "s_subscribe"
    /\ steps = <<"install_failed", "build", "spawn", "replace">>
    /\ running(GLOBAL_CHILD)
    /\ persisted.status = "Running"
    /\ exit_code = -1

\* C26: when the kill of a reload fails, the error is appended to the error
\* log, the state is persisted with it, no workload is spawned in that step
\* or after it, and the engine exits with code 100; a reload's kill step goes
\* on to the build position only when it logged no error.
C26_ReloadKillFailureIsFatal ==
    [][/\ (pc = "rl_kill" /\ pc' # pc) =>
              \/ pc' = "rl_build" /\ exit_code' = -1 /\ state' = state
              \/ /\ pc' = "exited"
                 /\ exit_path' = "reload_kill_failed"
                 /\ exit_code' = ExitFailure
                 /\ state'.error_log = Append(state.error_log, "KillFailed")
                 /\ persisted' = state'
                 /\ spawned' = spawned
       /\ exit_path = "reload_kill_failed" =>
              /\ spawned' = spawned
              /\ pc' = "exited"
              /\ exit_code' = ExitFailure]_vars

C26_Witness ==
    /\ pc = "exited"
    /\ exit_path = "reload_kill_failed"
    /\ exit_code = ExitFailure
    /\ persisted.error_log = <<"KillFailed">>
    /\ steps = <<"reload", "kill">>
    /\ spawned = 1

\* C27: whenever the main loop is at its select point the PID artifact holds
\* the PID of the installed workload, and whenever a workload is installed
\* the artifact already holds its PID.
C27_PidFileNamesInstalled ==
    [][/\ pc = "select" => (GLOBAL_CHILD # 0 /\ pid_file = GLOBAL_CHILD)
       /\ GLOBAL_CHILD' # GLOBAL_CHILD => pid_file = GLOBAL_CHILD']_vars

\* At the select point after a second workload was spawned and installed.
C27_Witness ==
    /\ pc = "select"
    /\ spawned = 2
    /\ GLOBAL_CHILD = 2
    /\ pid_file = 2

\* C28: when the main loop comes to its select point from start-up, or from a
\* change-threshold rebuild that installed a new workload (and no reload
\* followed it in the same iteration), the persisted phase is Running.
C28_RunningAfterProtocol ==
    [][(pc # "select" /\ pc' = "select") =>
          /\ pc = "s_subscribe" => persisted'.status = "Running"
          /\ (branch = "change" /\ RebuildDone /\ "reload" \notin Range(steps)) =>
                persisted'.status = "Running"]_vars

\* C29: when the build and spawn steps of a crash respawn or of a reload are
\* run, the persisted phase is Building.
C29_BuildingBeforeRespawn ==
    [][(pc \in {"rs_build", "rs_spawn", "rl_build", "rl_spawn"} /\ pc' # pc) =>
          persisted.status = "Building"]_vars

\* C30: a health tick that cannot read the metrics appends an error entry,
\* persists the state with phase Warning and goes on to the rest of the
\* iteration without exiting; a health tick that reads the metrics persists
\* phase Running, also when the phase was Warning before it.
C30_UnreadableMetricsIsWarning ==
    [][/\ TickAppends("MetricsFailed") =>
              /\ persisted' = state'
              /\ persisted'.status = "Warning"
              /\ pc' = "reload_chk"
              /\ exit_code' = -1
       /\ (pc = "tk_metrics" /\ pc' # pc /\ ~TickAppends("MetricsFailed")) =>
              /\ persisted' = state'
              /\ persisted'.status = "Running"]_vars

\* A tick has read the metrics after an earlier tick could not: the entry of
\* the earlier tick is in the log and the phase is Running again.
C30_Witness ==
    /\ pc = "reload_chk"
    /\ branch = "tick"
    /\ faults = 1
    /\ persisted.error_log = <<"MetricsFailed">>
    /\ persisted.status = "Running"

\* C31: a health tick that reads a memory usage equal to or above the ceiling
\* appends exactly one entry to the (trimmed) error log and one that reads a
\* usage below the ceiling appends none; neither kills or spawns a workload
\* nor changes the installed one, and the iteration goes on.
C31_OverLimitIsLoggedOnly ==
    [][(pc = "tk_metrics" /\ pc' # pc /\ sampled' # -1) =>
          /\ sampled' >= MaxRamUsage =>
                state'.error_log = Append(TrimErrorLog(state.error_log), "OverRamLimit")
          /\ sampled' < MaxRamUsage =>
                state'.error_log = TrimErrorLog(state.error_log)
          /\ alive' = alive
          /\ spawned' = spawned
          /\ GLOBAL_CHILD' = GLOBAL_CHILD
          /\ pc' = "reload_chk"
          /\ exit_code' = -1]_vars

\* A tick has read a usage equal to the ceiling and logged it; the workload
\* installed at start-up is still the installed one and still runs.
C31_Witness ==
    /\ pc = "reload_chk"
    /\ branch = "tick"
    /\ sampled = MaxRamUsage
    /\ persisted.error_log = <<"OverRamLimit">>
    /\ GLOBAL_CHILD = 1
    /\ running(GLOBAL_CHILD)
    /\ spawned = 1

\* C32: the reload flag goes from set to clear only in the step of the main
\* task that installs the reload's freshly spawned workload in the slot; a
\* step that ends the engine (a failed kill, a failed build, a failed spawn)
\* leaves the flag as it was.
C32_ReloadFlagClearedAfterInstall ==
    [][/\ (reload /\ ~reload') =>
              /\ pc = "rl_replace"
              /\ "reload" \in Range(steps)
              /\ steps[Len(steps)] = "spawn"
              /\ new_child = spawned
              /\ GLOBAL_CHILD' = new_child
       /\ pc' = "exited" => reload' = reload]_vars

\* The reload has installed its workload and cleared the flag.
C32_Witness ==
    /\ pc = "exit_chk"
    /\ ReloadDone
    /\ ~reload
    /\ GLOBAL_CHILD = spawned
    /\ spawned = 2

\* No two positions of the buffer hold the same (timestamp, line) entry.
NoDuplicates(buf) ==
    \A i, j \in 1..Len(buf) : buf[i] = buf[j] => i = j

\* C33: after the merge of a health tick the stdout buffer and the stderr
\* buffer hold no entry twice, whatever the batch and the earlier content.
C33_MergedBuffersHaveNoDuplicates ==
    merges >= 1 => NoDuplicates(state.stdout) /\ NoDuplicates(state.stderr)

\* The positions of the main task whose operation (kill of the crash
\* respawn, get_metrics, kill of the reload, kill of the shutdown) is taken
\* on main's variable child.
UsesLocalHandle == {"rs_kill", "tk_metrics", "rl_kill", "ex_kill"}

\* C34: wherever the health tick, the reload and the shutdown operate on a
\* workload handle, that handle is the one of the installed workload.
C34_OperationsOnInstalled ==
    pc \in UsesLocalHandle => child = GLOBAL_CHILD

\* C35: a reload is started only when a SIGHUP has arrived that no earlier
\* reload has served, and the reload flag goes from clear to set only by the
\* SIGHUP thread.
C35_ReloadOnlyOnSignal ==
    [][/\ (pc = "reload_chk" /\ pc' = "rl_kill") => reload_req
       /\ (~reload /\ reload') => reload_req']_vars

\* C36: when the engine has exited and the installed workload is still
\* running, a kill was attempted in the sequence that ended in the exit.
C36_KillAttemptedBeforeExit ==
    (pc = "exited" /\ GLOBAL_CHILD # 0 /\ running(GLOBAL_CHILD)) =>
        "kill" \in Range(steps)

=============================================================================
